---- MODULE Spec2Model ----
(***************************************************************************)
(* Model of the DynamoDB article repository of notelify-articles-svc       *)
(* (internal/adapters/repository/dynamodb/dynamodb.go).                    *)
(*                                                                         *)
(* The table is a map from the key attribute article_id to an item; an    *)
(* item is a map from attribute names to values.  Every store call        *)
(* (PutItem, GetItem, Scan, Query, DeleteItem) is atomic and reads the     *)
(* one copy of the table.  A store call or a (un)marshalling may fail:     *)
(* the failure is an input of the action (fault).                          *)
(***************************************************************************)
EXTENDS Integers, Sequences, FiniteSets, TLC

\* Number of distinct article ids in play.
MaxIds == 2

IdOf == <<"a1", "a2", "a3", "a4">>
Ids == {IdOf[i] : i \in 1..MaxIds}
TagNames == {"go", "db"}
AuthorIds == {"x", "y"}

\* The contents the callers write: title, tags, author id.
Contents ==
  {<<"T", <<"go", "db">>, "x">>, <<"U", <<"db">>, "y">>, <<"T", <<"db">>, "x">>}

\* domain.Article: the record the repository stores.
Article ==
  {[ArticleID |-> id, Title |-> c[1], Subtitle |-> "S", Introduction |-> "I",
    Body |-> "B", Tags |-> c[2], PublishDate |-> "D", Author |-> [ID |-> c[3]]] :
     id \in Ids, c \in Contents}

\* The zero value domain.Article{}.
EmptyArticle ==
  [ArticleID |-> "", Title |-> "", Subtitle |-> "", Introduction |-> "",
   Body |-> "", Tags |-> <<>>, PublishDate |-> "", Author |-> [ID |-> ""]]

\* dynamodbattribute.MarshalMap(article): one attribute per field.
Marshal(a) ==
  [article_id |-> a.ArticleID, title |-> a.Title, subtitle |-> a.Subtitle,
   introduction |-> a.Introduction, body |-> a.Body, tags |-> a.Tags,
   publish_date |-> a.PublishDate, author_info |-> [author_id |-> a.Author.ID]]

Attr(item, name, zero) == IF name \in DOMAIN item THEN item[name] ELSE zero

\* dynamodbattribute.UnmarshalMap(item, &article): a missing attribute
\* leaves the field at its zero value.
Unmarshal(item) ==
  [ArticleID |-> Attr(item, "article_id", ""),
   Title |-> Attr(item, "title", ""),
   Subtitle |-> Attr(item, "subtitle", ""),
   Introduction |-> Attr(item, "introduction", ""),
   Body |-> Attr(item, "body", ""),
   Tags |-> Attr(item, "tags", <<>>),
   PublishDate |-> Attr(item, "publish_date", ""),
   Author |-> [ID |-> Attr(item, "author_info", [author_id |-> ""]).author_id]]

\* Error values.
NoErr == [src |-> "nil", msg |-> <<>>]
StoreErr == [src |-> "store", msg |-> <<>>]
NotFoundErr(id) ==
  [src |-> "errors.New", msg |-> <<"Article with id [ ", id, " ] not found">>]

\* Returned values: a nil pointer, a pointer to one article, a pointer to a
\* slice of articles.
Nil == [nil |-> TRUE, arts |-> <<>>]
Ptr(a) == [nil |-> FALSE, arts |-> <<a>>]
List(s) == [nil |-> FALSE, arts |-> s]

\* Store calls -------------------------------------------------------------

\* PutItem with a condition attribute_not_exists(article_id): an existing
\* item is kept.
PutItemIfAbsent(tbl, item) ==
  [k \in DOMAIN tbl \cup {item.article_id} |->
     IF k \in DOMAIN tbl THEN tbl[k] ELSE item]

\* PutItem: the item replaces whatever the table holds under its key.
PutItem(tbl, item) ==
  [k \in DOMAIN tbl \cup {item.article_id} |->
     IF k = item.article_id THEN item ELSE tbl[k]]

\* GetItem: result.Item, <<>> standing for a nil Item.
GetItem(tbl, id) == IF id \in DOMAIN tbl THEN <<tbl[id]>> ELSE <<>>

\* DeleteItem that removes nothing.
DeleteItemKeep(tbl, id) == tbl

\* DeleteItem: removes the key; an absent key is no error.
DeleteItem(tbl, id) == [k \in DOMAIN tbl \ {id} |-> tbl[k]]

VARIABLES table, alive, last, before, pc, upd

vars == <<table, alive, last, before, pc, upd>>

\* Every order in which a Scan or Query may return the items of the keys.
Orders(keys) ==
  {o \in [1..Cardinality(keys) -> keys] :
     \A i, j \in DOMAIN o : o[i] = o[j] => i = j}

\* The attributes named by the scan's projection expression.
ProjNames ==
  {"article_id", "title", "subtitle", "introduction", "body", "tags",
   "publish_date", "author_info"}

Project(item) == [n \in (DOMAIN item) \cap ProjNames |-> item[n]]

\* The scan's filter expression: attribute_not_exists(ArticleID).
ScanFilter(item) == "ArticleID" \notin DOMAIN item

\* The keys of the items the scan of GetArticles matches.
ScanKeys(tbl) == {k \in DOMAIN tbl : ScanFilter(tbl[k])}

\* Scan with the filter and the projection of GetArticles; o is the order of
\* the matching items.
Scan(tbl, o) == [i \in 1..Len(o) |-> Project(tbl[o[i]])]

Contains(list, v) == \E i \in 1..Len(list) : list[i] = v

\* The items of TagsIndex: the index is keyed by the attribute "Tag", so it
\* holds the items that have that attribute.
QueryKey(item, tag) == "Tag" \in DOMAIN item /\ item["Tag"] = tag

\* The query's filter expression: contains(Tags, :tag).
QueryFilter(item, tag) == "Tags" \in DOMAIN item /\ Contains(item["Tags"], tag)

\* The keys of the items the query of GetArticlesByTag matches.
QueryKeys(tbl, tag) ==
  {k \in DOMAIN tbl : QueryKey(tbl[k], tag) /\ QueryFilter(tbl[k], tag)}

\* Query on TagsIndex with the key condition and the filter of
\* GetArticlesByTag; o is the order of the matching items.
Query(tbl, o) == [i \in 1..Len(o) |-> tbl[o[i]]]

\* Repository operations, as functions of the table and of the faults -----

\* GetArticleByID without the check of a nil result.Item.
GetArticleByIDOpNoNilCheck(tbl, id, fault) ==
  LET result == GetItem(tbl, id)
  IN  IF fault = "get" THEN [err |-> StoreErr, ret |-> Ptr(EmptyArticle)]
      ELSE IF result = <<>> THEN [err |-> NoErr, ret |-> Ptr(EmptyArticle)]
      ELSE IF fault = "unmarshal"
        THEN [err |-> StoreErr, ret |-> Ptr(EmptyArticle)]
      ELSE [err |-> NoErr, ret |-> Ptr(Unmarshal(result[1]))]

\* GetArticleByID.
GetArticleByIDOp(tbl, id, fault) ==
  LET result == GetItem(tbl, id)
  IN  IF fault = "get" THEN [err |-> StoreErr, ret |-> Ptr(EmptyArticle)]
      ELSE IF result = <<>>
        THEN [err |-> NotFoundErr(id), ret |-> Ptr(EmptyArticle)]
      ELSE IF fault = "unmarshal"
        THEN [err |-> StoreErr, ret |-> Ptr(EmptyArticle)]
      ELSE [err |-> NoErr, ret |-> Ptr(Unmarshal(result[1]))]

\* The loop of GetArticles returning what it decoded so far on a failure.
RECURSIVE UnmarshalLoopPartial(_, _, _, _)
UnmarshalLoopPartial(items, i, bad, articles) ==
  IF i > Len(items) THEN [err |-> NoErr, ret |-> List(articles)]
  ELSE IF i = bad THEN [err |-> StoreErr, ret |-> List(articles)]
  ELSE UnmarshalLoopPartial(items, i + 1, bad,
                            Append(articles, Unmarshal(items[i])))

\* The loop of GetArticles over result.Items; the item at index bad fails
\* to unmarshal (0: none does).
RECURSIVE UnmarshalLoop(_, _, _, _)
UnmarshalLoop(items, i, bad, articles) ==
  IF i > Len(items) THEN [err |-> NoErr, ret |-> List(articles)]
  ELSE IF i = bad THEN [err |-> StoreErr, ret |-> Nil]
  ELSE UnmarshalLoop(items, i + 1, bad, Append(articles, Unmarshal(items[i])))

\* GetArticles.  (The expression built at lines 137-148 is constant, so
\* Build does not fail.)
GetArticlesOp(tbl, o, fault, bad) ==
  IF fault = "scan" THEN [err |-> StoreErr, ret |-> Nil]
  ELSE UnmarshalLoop(Scan(tbl, o), 1, bad, <<>>)

\* The loop of GetArticlesByAuthor comparing the article id, not the author
\* id.
RECURSIVE AuthorLoopWrongField(_, _, _, _)
AuthorLoopWrongField(articles, i, author_id, authorArticles) ==
  IF i > Len(articles) THEN authorArticles
  ELSE AuthorLoopWrongField(articles, i + 1, author_id,
         IF articles[i].ArticleID = author_id
           THEN Append(authorArticles, articles[i])
           ELSE authorArticles)

\* The loop of GetArticlesByAuthor over the listed articles.
RECURSIVE AuthorLoop(_, _, _, _)
AuthorLoop(articles, i, author_id, authorArticles) ==
  IF i > Len(articles) THEN authorArticles
  ELSE AuthorLoop(articles, i + 1, author_id,
         IF articles[i].Author.ID = author_id
           THEN Append(authorArticles, articles[i])
           ELSE authorArticles)

\* GetArticlesByAuthor.
GetArticlesByAuthorOp(tbl, o, fault, bad, author_id) ==
  LET r == GetArticlesOp(tbl, o, fault, bad)
  IN  IF r.err # NoErr THEN [err |-> r.err, ret |-> Nil]
      ELSE [err |-> NoErr,
            ret |-> List(AuthorLoop(r.ret.arts, 1, author_id, <<>>))]

\* GetArticlesByTag: log.Fatalf ends the process (exit) instead of
\* returning an error.
GetArticlesByTagOp(tbl, o, fault, bad) ==
  LET items == Query(tbl, o)
  IN  IF fault = "query" \/ (bad # 0 /\ bad <= Len(items))
        THEN [exit |-> TRUE, err |-> NoErr, ret |-> Nil]
        ELSE [exit |-> FALSE, err |-> NoErr,
              ret |-> List([i \in 1..Len(items) |-> Unmarshal(items[i])])]

\* DeleteArticle.
DeleteArticleOp(tbl, id, fault) ==
  IF fault = "delete" THEN [tbl |-> tbl, err |-> StoreErr]
  ELSE [tbl |-> DeleteItem(tbl, id), err |-> NoErr]

\* The loop of DeleteArticleAll: the error of each DeleteArticle is dropped.
\* failing: the ids whose DeleteItem call fails.
RECURSIVE DeleteLoop(_, _, _, _)
DeleteLoop(tbl, articles, i, failing) ==
  IF i > Len(articles) THEN tbl
  ELSE DeleteLoop(
         DeleteArticleOp(tbl, articles[i].ArticleID,
           IF articles[i].ArticleID \in failing THEN "delete" ELSE "none").tbl,
         articles, i + 1, failing)

\* DeleteArticleAll.
DeleteArticleAllOp(tbl, o, fault, bad, failing) ==
  LET r == GetArticlesOp(tbl, o, fault, bad)
  IN  IF r.err # NoErr THEN [tbl |-> tbl, err |-> r.err]
      ELSE [tbl |-> DeleteLoop(tbl, r.ret.arts, 1, failing), err |-> NoErr]

\* CreateArticle.
CreateArticleOp(tbl, article, fault) ==
  IF fault = "marshal" THEN [tbl |-> tbl, err |-> StoreErr, ret |-> Nil]
  ELSE IF fault = "put" THEN [tbl |-> tbl, err |-> StoreErr, ret |-> Nil]
  ELSE [tbl |-> PutItem(tbl, Marshal(article)), err |-> NoErr,
        ret |-> Ptr(article)]

\* UpdateArticle as a partial patch: the author of an existing item is kept.
UpdateArticleOpPatch(tbl, article, fault) ==
  IF fault = "marshal" THEN [tbl |-> tbl, err |-> StoreErr, ret |-> Nil]
  ELSE IF fault = "put" THEN [tbl |-> tbl, err |-> StoreErr, ret |-> Nil]
  ELSE LET id == article.ArticleID
           item == IF id \in DOMAIN tbl
                     THEN [Marshal(article) EXCEPT
                             !.author_info = tbl[id].author_info]
                     ELSE Marshal(article)
           written == PutItem(tbl, item)
           r == GetArticleByIDOp(written, id, fault)
       IN  [tbl |-> written, err |-> r.err, ret |-> r.ret]

\* UpdateArticle, run without interleaving.
UpdateArticleOp(tbl, article, fault) ==
  IF fault = "marshal" THEN [tbl |-> tbl, err |-> StoreErr, ret |-> Nil]
  ELSE IF fault = "put" THEN [tbl |-> tbl, err |-> StoreErr, ret |-> Nil]
  ELSE LET written == PutItem(tbl, Marshal(article))
           r == GetArticleByIDOp(written, article.ArticleID, fault)
       IN  [tbl |-> written, err |-> r.err, ret |-> r.ret]

\* State ---------------------------------------------------------------------
\*   table   the articles table
\*   alive   the service process is running
\*   last    the latest call of the sequential caller: operation, key
\*           argument, article argument, fault injected, error and value
\*           returned, whether the table held an item under the key when the
\*           call started (had) and whether that item differed from the
\*           argument (replaced)
\*   before  when last is GetArticleByID(id): the call right before it, if
\*           that was a successful write or delete of id; when last is
\*           GetArticles: the call right before it, if that was a successful
\*           DeleteArticleAll; NoBrief otherwise
\*   pc,upd  a concurrent UpdateArticle request: its position, its argument
\*           and the result of its re-read

Held(tbl, id) == IF id \in DOMAIN tbl THEN <<Unmarshal(tbl[id])>> ELSE <<>>

Call(op, key, in, fault, r, old) ==
  [op |-> op, key |-> key, in |-> in, fault |-> fault, err |-> r.err,
   ret |-> r.ret, had |-> old # <<>>, replaced |-> old # <<>> /\ old # in]

NoBrief == [op |-> "none", key |-> "", in |-> <<>>, had |-> FALSE, replaced |-> FALSE]

Brief(l) ==
  IF l.err = NoErr /\ l.op \in {"CreateArticle", "UpdateArticle",
                                "DeleteArticle", "DeleteArticleAll"}
    THEN [op |-> l.op, key |-> l.key, in |-> l.in, had |-> l.had,
          replaced |-> l.replaced]
    ELSE NoBrief

NoResult == [err |-> NoErr, ret |-> Nil]

Init ==
  /\ table = <<>>
  /\ alive = TRUE
  /\ last = Call("init", "", <<>>, "none", NoResult, <<>>)
  /\ before = NoBrief
  /\ pc = "idle"
  /\ upd = [in |-> <<>>, err |-> NoErr, ret |-> Nil]

Sequential == alive /\ pc = "idle" /\ upd.in = <<>>

CreateArticle(article, fault) ==
  /\ Sequential
  /\ LET r == CreateArticleOp(table, article, fault)
     IN  /\ table' = r.tbl
         /\ last' = Call("CreateArticle", article.ArticleID, <<article>>,
                         fault, r, Held(table, article.ArticleID))
  /\ before' = NoBrief
  /\ UNCHANGED <<alive, pc, upd>>

GetArticleByID(article_id, fault) ==
  /\ Sequential
  /\ fault = "unmarshal" => article_id \in DOMAIN table
  /\ last' = Call("GetArticleByID", article_id, <<>>, fault,
                  GetArticleByIDOp(table, article_id, fault), <<>>)
  /\ before' = IF last.key = article_id THEN Brief(last) ELSE NoBrief
  /\ UNCHANGED <<table, alive, pc, upd>>

GetArticles(fault) ==
  /\ Sequential
  /\ \E o \in Orders(ScanKeys(table)) :
       \E bad \in IF fault = "scan" THEN {0} ELSE 0..Len(o) :
         last' = Call("GetArticles", "", <<>>,
                      IF bad # 0 THEN "unmarshal" ELSE fault,
                      GetArticlesOp(table, o, fault, bad), <<>>)
  /\ before' = IF last.op = "DeleteArticleAll" THEN Brief(last) ELSE NoBrief
  /\ UNCHANGED <<table, alive, pc, upd>>

GetArticlesByAuthor(author_id, fault) ==
  /\ Sequential
  /\ \E o \in Orders(ScanKeys(table)) :
       \E bad \in IF fault = "scan" THEN {0} ELSE 0..Len(o) :
         last' = Call("GetArticlesByAuthor", author_id, <<>>,
                      IF bad # 0 THEN "unmarshal" ELSE fault,
                      GetArticlesByAuthorOp(table, o, fault, bad, author_id),
                      <<>>)
  /\ before' = NoBrief
  /\ UNCHANGED <<table, alive, pc, upd>>

GetArticlesByTag(tag, fault) ==
  /\ Sequential
  /\ \E o \in Orders(QueryKeys(table, tag)) :
       \E bad \in IF fault = "query" THEN {0} ELSE 0..Len(o) :
         LET r == GetArticlesByTagOp(table, o, fault, bad)
         IN  /\ alive' = ~r.exit
             /\ last' = Call("GetArticlesByTag", tag, <<>>,
                             IF bad # 0 THEN "unmarshal" ELSE fault, r, <<>>)
  /\ before' = NoBrief
  /\ UNCHANGED <<table, pc, upd>>

UpdateArticle(article, fault) ==
  /\ Sequential
  /\ LET r == UpdateArticleOp(table, article, fault)
     IN  /\ table' = r.tbl
         /\ last' = Call("UpdateArticle", article.ArticleID, <<article>>,
                         fault, r, Held(table, article.ArticleID))
  /\ before' = NoBrief
  /\ UNCHANGED <<alive, pc, upd>>

DeleteArticle(article_id, fault) ==
  /\ Sequential
  /\ LET r == DeleteArticleOp(table, article_id, fault)
     IN  /\ table' = r.tbl
         /\ last' = Call("DeleteArticle", article_id, <<>>, fault,
                         [err |-> r.err, ret |-> Nil], Held(table, article_id))
  /\ before' = NoBrief
  /\ UNCHANGED <<alive, pc, upd>>

DeleteArticleAll(fault) ==
  /\ Sequential
  /\ \E o \in Orders(ScanKeys(table)) :
       \E bad \in IF fault = "scan" THEN {0} ELSE 0..Len(o) :
         \E failing \in IF fault = "scan" \/ bad # 0 THEN {{}}
                        ELSE SUBSET DOMAIN table :
           LET r == DeleteArticleAllOp(table, o, fault, bad, failing)
           IN  /\ table' = r.tbl
               /\ last' = Call("DeleteArticleAll", "", <<>>,
                               IF bad # 0 THEN "unmarshal"
                               ELSE IF failing # {} THEN "delete" ELSE fault,
                               [err |-> r.err, ret |-> Nil], <<>>)
  /\ before' = NoBrief
  /\ UNCHANGED <<alive, pc, upd>>

Next ==
  \/ \E a \in Article, f \in {"none", "marshal", "put"} : CreateArticle(a, f)
  \/ \E id \in Ids, f \in {"none", "get", "unmarshal"} : GetArticleByID(id, f)
  \/ \E f \in {"none", "scan"} : GetArticles(f)
  \/ \E x \in AuthorIds, f \in {"none", "scan"} : GetArticlesByAuthor(x, f)
  \/ \E t \in TagNames, f \in {"none", "query"} : GetArticlesByTag(t, f)
  \/ \E a \in Article, f \in {"none", "marshal", "put", "get", "unmarshal"} :
       UpdateArticle(a, f)
  \/ \E id \in Ids, f \in {"none", "delete"} : DeleteArticle(id, f)
  \/ \E f \in {"none", "scan"} : DeleteArticleAll(f)

Spec == Init /\ [][Next]_vars

\* Concurrent requests ---------------------------------------------------------
\* UpdateArticle as the three steps another request can interleave with: the
\* write (lines 180-193), the re-read (GetArticleByID called at line 195) and
\* the return of what was read.  upd.in is the argument, upd.err and upd.ret
\* the result.

Concurrent == alive /\ last.op = "init"

UpdateArticlePut(article, fault) ==
  /\ Concurrent
  /\ pc = "idle"
  /\ IF fault = "none"
       THEN /\ table' = PutItem(table, Marshal(article))
            /\ pc' = "wrote"
            /\ upd' = [in |-> <<article>>, err |-> NoErr, ret |-> Nil]
       ELSE /\ upd' = [in |-> <<article>>, err |-> StoreErr, ret |-> Nil]
            /\ UNCHANGED <<table, pc>>
  /\ UNCHANGED <<alive, last, before>>

\* The re-read replaced by handing back the argument.
UpdateArticleRereadEcho(fault) ==
  /\ Concurrent
  /\ pc = "wrote"
  /\ fault = "unmarshal" => upd.in[1].ArticleID \in DOMAIN table
  /\ upd' = [in |-> upd.in,
             err |-> IF fault = "none" THEN NoErr ELSE StoreErr,
             ret |-> IF fault = "none" THEN Ptr(upd.in[1])
                     ELSE Ptr(EmptyArticle)]
  /\ pc' = "read"
  /\ UNCHANGED <<table, alive, last, before>>

UpdateArticleReread(fault) ==
  /\ Concurrent
  /\ pc = "wrote"
  /\ fault = "unmarshal" => upd.in[1].ArticleID \in DOMAIN table
  /\ LET r == GetArticleByIDOp(table, upd.in[1].ArticleID, fault)
     IN  upd' = [in |-> upd.in, err |-> r.err, ret |-> r.ret]
  /\ pc' = "read"
  /\ UNCHANGED <<table, alive, last, before>>

UpdateArticleReturn ==
  /\ Concurrent
  /\ pc = "read"
  /\ pc' = "idle"
  /\ UNCHANGED <<table, alive, last, before, upd>>

\* The store call of another request's CreateArticle or UpdateArticle.
OtherPutItem(article) ==
  /\ Concurrent
  /\ table' = PutItem(table, Marshal(article))
  /\ UNCHANGED <<alive, last, before, pc, upd>>

\* The store call of another request's DeleteArticle.
OtherDeleteItem(article_id) ==
  /\ Concurrent
  /\ table' = DeleteItem(table, article_id)
  /\ UNCHANGED <<alive, last, before, pc, upd>>

NextConc ==
  \/ \E a \in Article, f \in {"none", "marshal", "put"} : UpdateArticlePut(a, f)
  \/ \E f \in {"none", "get", "unmarshal"} : UpdateArticleReread(f)
  \/ UpdateArticleReturn
  \/ \E a \in Article : OtherPutItem(a)
  \/ \E id \in Ids : OtherDeleteItem(id)

SpecConc == Init /\ [][NextConc]_vars

\* Properties ------------------------------------------------------------------

Count(seq, a) == Cardinality({i \in 1..Len(seq) : seq[i] = a})
Range(seq) == {seq[i] : i \in 1..Len(seq)}

\* C1: a GetArticleByID(A.article_id) whose store call succeeds, made right
\* after a successful CreateArticle(A) (the id new or already stored), returns
\* no error and an article equal to A in every field.
C1_CreateThenGetReturnsArticle ==
  (last.op = "GetArticleByID" /\ before.op = "CreateArticle"
     /\ last.fault = "none")
    => (last.err = NoErr /\ last.ret = Ptr(before.in[1]))

\* C1 witness: the read follows a create that overwrote a different article.
C1_Witness ==
  /\ last.op = "GetArticleByID" /\ before.op = "CreateArticle"
  /\ before.replaced /\ last.err = NoErr

\* C2: a GetArticleByID(id) whose store call succeeds and finds no item under
\* id returns the not-found error carrying id, which is not the store error,
\* and leaves the table unchanged.
C2_AbsentIdYieldsNotFound ==
  [][(last'.op = "GetArticleByID" /\ last'.key \notin DOMAIN table
        /\ last'.fault = "none")
       => (/\ last'.err = NotFoundErr(last'.key)
           /\ last'.err # StoreErr
           /\ last'.err.msg[2] = last'.key
           /\ table' = table)]_vars

\* C2 witness: a read of an id the non-empty table does not hold.
C2_Witness ==
  /\ last.op = "GetArticleByID" /\ last.key \notin DOMAIN table
  /\ table # <<>> /\ last.err = NotFoundErr(last.key)

\* C3: a GetArticleByID whose store call succeeds, made right after a
\* successful UpdateArticle(A') that found a different article A under the
\* same id, returns A' in every field.
C3_UpdateThenGetReturnsNewArticle ==
  (last.op = "GetArticleByID" /\ before.op = "UpdateArticle"
     /\ before.replaced /\ last.fault = "none")
    => (last.err = NoErr /\ last.ret = Ptr(before.in[1]))

\* C3 witness: the read follows an update that replaced a different article.
C3_Witness ==
  /\ last.op = "GetArticleByID" /\ before.op = "UpdateArticle"
  /\ before.replaced /\ last.err = NoErr

\* C4: a GetArticlesByAuthor(X) that meets no fault returns no error and a
\* non-nil sequence, and whenever it returns no error its result holds,
\* with the same multiplicity, exactly the articles with author id X of any
\* GetArticles() listing of the same table, and no other article.
C4_ByAuthorIsFilteredListing ==
  last.op = "GetArticlesByAuthor" =>
    /\ last.fault = "none" => (last.err = NoErr /\ ~last.ret.nil)
    /\ last.err = NoErr =>
         \A o \in Orders(ScanKeys(table)) :
           LET all == GetArticlesOp(table, o, "none", 0).ret.arts
           IN  \A a \in Range(all) \cup Range(last.ret.arts) :
                 Count(last.ret.arts, a) =
                   IF a.Author.ID = last.key THEN Count(all, a) ELSE 0

\* C4 witness: some stored articles are of the author and some are not.
C4_Witness ==
  /\ last.op = "GetArticlesByAuthor" /\ last.err = NoErr
  /\ Len(last.ret.arts) >= 1
  /\ Len(last.ret.arts) < Cardinality(DOMAIN table)

\* C5: a DeleteArticle(id) whose store call succeeds returns no error, the
\* id stored or not; a GetArticleByID(id) whose store call succeeds, made
\* right after a successful DeleteArticle(id), returns the not-found error
\* carrying id.
C5_DeleteThenGetYieldsNotFound ==
  /\ (last.op = "DeleteArticle" /\ last.fault = "none") => last.err = NoErr
  /\ (last.op = "GetArticleByID" /\ before.op = "DeleteArticle"
        /\ last.fault = "none")
       => last.err = NotFoundErr(last.key)

\* C5 witness: the read follows the delete of an id that was stored.
C5_Witness ==
  /\ last.op = "GetArticleByID" /\ before.op = "DeleteArticle"
  /\ before.had /\ last.err = NotFoundErr(last.key)

\* C6: a successful GetArticles() made right after a DeleteArticleAll() that
\* returned no error returns an empty sequence.
C6_DeleteAllThenListIsEmpty ==
  (last.op = "GetArticles" /\ before.op = "DeleteArticleAll"
     /\ last.err = NoErr)
    => last.ret.arts = <<>>

\* C7: every fault met by an operation is returned to its caller as an error,
\* but for the faults of the single deletes inside DeleteArticleAll.
C7_EveryFaultIsReturned ==
  (last.fault # "none"
     /\ ~(last.op = "DeleteArticleAll" /\ last.fault = "delete"))
    => (alive /\ last.err # NoErr)

\* C8: when the scan or the decoding of a scanned item fails, GetArticles
\* and GetArticlesByAuthor return the store error and a nil sequence, and
\* DeleteArticleAll returns the store error and leaves the table as it was.
C8_FailedListingAborts ==
  [][/\ (last'.op \in {"GetArticles", "GetArticlesByAuthor"}
           /\ last'.fault \in {"scan", "unmarshal"})
          => (last'.err = StoreErr /\ last'.ret = Nil)
     /\ (last'.op = "DeleteArticleAll"
           /\ last'.fault \in {"scan", "unmarshal"})
          => (last'.err = StoreErr /\ table' = table)]_vars

\* C8 witness: a DeleteArticleAll whose listing failed to decode an item,
\* on a table of at least two articles.
C8_Witness ==
  /\ last.op = "DeleteArticleAll" /\ last.fault = "unmarshal"
  /\ Cardinality(DOMAIN table) >= 2 /\ last.err = StoreErr

\* C9: a GetArticlesByTag(t) that returns holds every stored article whose
\* tags contain t, and only stored articles whose tags contain t.
C9_ByTagReturnsTaggedArticles ==
  (last.op = "GetArticlesByTag" /\ alive) =>
    /\ \A id \in DOMAIN table :
         Contains(Unmarshal(table[id]).Tags, last.key)
           => Unmarshal(table[id]) \in Range(last.ret.arts)
    /\ \A a \in Range(last.ret.arts) :
         /\ Contains(a.Tags, last.key)
         /\ <<a>> = Held(table, a.ArticleID)

\* C10, as claimed: at the step by which UpdateArticle returns without
\* error, the article it returns is the one the table holds under the id.
C10_ReturnsWhatTheStoreHolds ==
  [][(pc = "read" /\ pc' = "idle" /\ upd.err = NoErr)
       => upd'.ret.arts = Held(table', upd.in[1].ArticleID)]_vars

\* C10, amended: the re-read of UpdateArticle, when it returns no error,
\* yields the article the table holds under the id at the re-read, and fails
\* with the not-found error when the store call succeeds and the table holds
\* none; the return hands back the result of the re-read unchanged.
C10_ReturnsWhatTheRereadFound ==
  [][/\ (pc = "wrote" /\ pc' = "read") =>
          /\ upd'.err = NoErr
               => upd'.ret.arts = Held(table, upd.in[1].ArticleID)
          /\ upd.in[1].ArticleID \notin DOMAIN table
               => upd'.err \in {NotFoundErr(upd.in[1].ArticleID), StoreErr}
     /\ (pc = "read" /\ pc' = "idle") => upd' = upd]_vars

\* C10 witness: the re-read found the article of another writer.
C10_Witness ==
  /\ pc = "read" /\ upd.err = NoErr
  /\ upd.ret.arts # upd.in

====
